---- MODULE Spec2Model ----
(***************************************************************************)
(* Model of the two components of the repository:                          *)
(*   Responder  src/Lambda/lambda_function.py   handler(event, context)    *)
(*   Caller     src/streamlit_app/app.py        the Streamlit script       *)
(* Python strings are TLA+ strings, f-strings are \o concatenations.       *)
(* Python values that can sit in the event are tagged records, so that a   *)
(* .get() on something that is not a dict can be told from one on a dict.  *)
(***************************************************************************)
EXTENDS Integers, Sequences, FiniteSets, TLC

VARIABLES event, lpc, response, lexc,
          name, clicked, cpc, page, requestUrl, httpResponse, cexc,
          getsThisRun, gets, presses

lvars == <<event, lpc, response, lexc>>
cvars == <<name, clicked, cpc, page, requestUrl, httpResponse, cexc,
           getsThisRun, gets, presses>>
vars == <<event, lpc, response, lexc,
          name, clicked, cpc, page, requestUrl, httpResponse, cexc,
          getsThisRun, gets, presses>>

\* Number of Send presses explored.
MaxPresses == 3

(***************************************************************************)
(* Python values                                                           *)
(***************************************************************************)
\* Values found inside the query-parameter mapping: a str or None.
PyStr(s) == [t |-> "str", s |-> s]
PyNone == [t |-> "none", s |-> ""]

EmptyDict == [k \in {} |-> PyNone]

\* Values found in the event: a dict of parameters, None, or a str.
EvDict(d) == [t |-> "dict", s |-> "", d |-> d]
EvNone == [t |-> "none", s |-> "", d |-> EmptyDict]
EvStr(s) == [t |-> "str", s |-> s, d |-> EmptyDict]

Dicts(Keys, Vals) == UNION {[K -> Vals] : K \in SUBSET Keys}

\* The strings a user or a client can put in the name parameter.
Names == {"", "Tobia", "a&b=c", "x#y"}

ParamKeys == {"name", "age"}
ParamValues == {PyStr(s) : s \in Names} \cup {PyNone}
ParamDicts == Dicts(ParamKeys, ParamValues)

EventKeys == {"queryStringParameters", "headers"}
QspValues == {EvDict(d) : d \in ParamDicts} \cup {EvNone, EvStr("name=Tobia")}
HeaderValues == {EvDict(EmptyDict)}
Events == {e \in Dicts(EventKeys, QspValues \cup HeaderValues) :
             /\ "headers" \in DOMAIN e => e["headers"] \in HeaderValues
             /\ "queryStringParameters" \in DOMAIN e
                   => e["queryStringParameters"] \in QspValues}

(***************************************************************************)
(* Responder: handler(event, context)                                      *)
(***************************************************************************)
\* dict.get(key, default)
DictGet(d, k, default) == IF k \in DOMAIN d THEN d[k] ELSE default

\* What an f-string replacement field {v} renders.
Format(v) == IF v.t = "str" THEN v.s ELSE "None"

NoResponse == [k \in {} |-> 0]
Return(r) == [kind |-> "return", value |-> r, exc |-> ""]
Raise(x) == [kind |-> "raise", value |-> NoResponse, exc |-> x]

\* Mutant: the outer lookup defaults to None instead of {}.
handler_outerDefaultNone(ev) ==
    LET qsp == DictGet(ev, "queryStringParameters", EvNone)
    IN  IF qsp.t # "dict"
        THEN Raise("AttributeError")
        ELSE LET nm == DictGet(qsp.d, "name", PyStr("World"))
             IN  Return([statusCode |-> 200,
                         body |-> "Hello " \o Format(nm) \o " from AWS Lambda!"])

\* Mutant: the greeting ignores the parameter.
handler_ignoresName(ev) ==
    LET qsp == DictGet(ev, "queryStringParameters", EvDict(EmptyDict))
    IN  IF qsp.t # "dict"
        THEN Raise("AttributeError")
        ELSE Return([statusCode |-> 200, body |-> "Hello World from AWS Lambda!"])

\* Mutant: an empty name falls back to the default (name = ... or "World").
handler_emptyAsMissing(ev) ==
    LET qsp == DictGet(ev, "queryStringParameters", EvDict(EmptyDict))
    IN  IF qsp.t # "dict"
        THEN Raise("AttributeError")
        ELSE LET got == DictGet(qsp.d, "name", PyStr("World"))
                 nm == IF Format(got) = "" THEN PyStr("World") ELSE got
             IN  Return([statusCode |-> 200,
                         body |-> "Hello " \o Format(nm) \o " from AWS Lambda!"])

\* Mutant: a missing name is answered with 400.
handler_missingIs400(ev) ==
    LET qsp == DictGet(ev, "queryStringParameters", EvDict(EmptyDict))
    IN  IF qsp.t # "dict"
        THEN Raise("AttributeError")
        ELSE LET nm == DictGet(qsp.d, "name", PyStr("World"))
             IN  Return([statusCode |-> IF "name" \in DOMAIN qsp.d THEN 200 ELSE 400,
                         body |-> "Hello " \o Format(nm) \o " from AWS Lambda!"])

\* name = event.get("queryStringParameters", {}).get("name", "World")
\* return {"statusCode": 200, "body": f"Hello {name} from AWS Lambda!"}
\* A value without a .get method (None, str) raises AttributeError.
handler(ev) ==
    LET qsp == DictGet(ev, "queryStringParameters", EvDict(EmptyDict))
    IN  IF qsp.t # "dict"
        THEN Raise("AttributeError")
        ELSE LET nm == DictGet(qsp.d, "name", PyStr("World"))
             IN  Return([statusCode |-> 200,
                         body |-> "Hello " \o Format(nm) \o " from AWS Lambda!"])

\* The infrastructure calls handler on the event it built.
Invoke ==
    /\ lpc = "ready"
    /\ LET out == handler(event)
       IN  /\ lpc' = IF out.kind = "return" THEN "returned" ELSE "raised"
           /\ response' = out.value
           /\ lexc' = out.exc
    /\ UNCHANGED <<event>>
    /\ UNCHANGED cvars

\* The infrastructure builds the event of the next request.
NextRequest ==
    /\ lpc # "ready"
    /\ event' \in Events
    /\ lpc' = "ready"
    /\ response' = NoResponse
    /\ lexc' = ""
    /\ UNCHANGED cvars

(***************************************************************************)
(* Caller: the Streamlit script, re-run from the top on every interaction  *)
(***************************************************************************)
api_url == "https://qonm1uqilc.execute-api.eu-west-1.amazonaws.com"

Element(kind, text) == [kind |-> kind, text |-> text]

\* st.title, st.text_input and st.button are rendered in every run.
BasePage == << Element("title", "Lambda Greeting Demo"),
               Element("text_input", "Enter your name:"),
               Element("button", "Send") >>

\* f"{api_url}/?name={name}"
RequestUrl(nm) == api_url \o "/?name=" \o nm

\* name or 'World'
OrWorld(nm) == IF nm = "" THEN "World" ELSE nm

NoHttpResponse == [status_code |-> 0, text |-> ""]

\* What the server may answer; the Caller never reads it.
HttpResponses == {[status_code |-> 200, text |-> "Hello Tobia from AWS Lambda!"],
                  [status_code |-> 200, text |-> "Hello  from AWS Lambda!"],
                  [status_code |-> 404, text |-> "Not Found"],
                  [status_code |-> 500, text |-> "Internal Server Error"]}

\* The user edits the text input: the script re-runs, st.button is False.
EnterName(s) ==
    /\ cpc # "requesting"
    /\ s # name
    /\ name' = s
    /\ clicked' = FALSE
    /\ page' = BasePage
    /\ cpc' = "idle"
    /\ requestUrl' = ""
    /\ httpResponse' = NoHttpResponse
    /\ cexc' = ""
    /\ getsThisRun' = 0
    /\ UNCHANGED <<gets, presses>>
    /\ UNCHANGED lvars

\* Mutant: the URL line is written before the request is made.
PressSend_writesFirst ==
    /\ cpc # "requesting"
    /\ presses < MaxPresses
    /\ presses' = presses + 1
    /\ clicked' = TRUE
    /\ page' = BasePage \o << Element("write", "Request sent to: " \o api_url) >>
    /\ requestUrl' = RequestUrl(name)
    /\ gets' = gets + 1
    /\ getsThisRun' = 1
    /\ httpResponse' = NoHttpResponse
    /\ cexc' = ""
    /\ cpc' = "requesting"
    /\ UNCHANGED <<name>>
    /\ UNCHANGED lvars

\* Mutant: the URL carries name or 'World', as the message does.
PressSend_urlOrWorld ==
    /\ cpc # "requesting"
    /\ presses < MaxPresses
    /\ presses' = presses + 1
    /\ clicked' = TRUE
    /\ page' = BasePage
    /\ requestUrl' = RequestUrl(OrWorld(name))
    /\ gets' = gets + 1
    /\ getsThisRun' = 1
    /\ httpResponse' = NoHttpResponse
    /\ cexc' = ""
    /\ cpc' = "requesting"
    /\ UNCHANGED <<name>>
    /\ UNCHANGED lvars

\* The user presses Send: the script re-runs, st.button is True and the
\* script blocks in requests.get(f"{api_url}/?name={name}").
PressSend ==
    /\ cpc # "requesting"
    /\ presses < MaxPresses
    /\ presses' = presses + 1
    /\ clicked' = TRUE
    /\ page' = BasePage
    /\ requestUrl' = RequestUrl(name)
    /\ gets' = gets + 1
    /\ getsThisRun' = 1
    /\ httpResponse' = NoHttpResponse
    /\ cexc' = ""
    /\ cpc' = "requesting"
    /\ UNCHANGED <<name>>
    /\ UNCHANGED lvars

\* Mutant: the message shows the body the server returned.
GetReturns_showsBody(r) ==
    /\ cpc = "requesting"
    /\ httpResponse' = r
    /\ page' = page \o << Element("write", "Request sent to: " \o api_url),
                          Element("success", r.text) >>
    /\ cpc' = "done"
    /\ UNCHANGED <<name, clicked, requestUrl, cexc, getsThisRun, gets, presses>>
    /\ UNCHANGED lvars

\* requests.get returns r; the script goes on to
\* st.write(f"Request sent to: {api_url}") and
\* st.success(f"Hello {name or 'World'} from AWS Lambda!").
GetReturns(r) ==
    /\ cpc = "requesting"
    /\ httpResponse' = r
    /\ page' = page \o << Element("write", "Request sent to: " \o api_url),
                          Element("success",
                                  "Hello " \o OrWorld(name) \o " from AWS Lambda!") >>
    /\ cpc' = "done"
    /\ UNCHANGED <<name, clicked, requestUrl, cexc, getsThisRun, gets, presses>>
    /\ UNCHANGED lvars

\* Mutant: a failed request is caught and tried again.
GetRaises_retries ==
    /\ cpc = "requesting"
    /\ getsThisRun < MaxPresses + 1
    /\ gets' = gets + 1
    /\ getsThisRun' = getsThisRun + 1
    /\ UNCHANGED <<name, clicked, cpc, page, requestUrl, httpResponse, cexc, presses>>
    /\ UNCHANGED lvars

\* requests.get raises; nothing catches it, the script run ends there.
GetRaises ==
    /\ cpc = "requesting"
    /\ cexc' = "ConnectionError"
    /\ cpc' = "failed"
    /\ UNCHANGED <<name, clicked, page, requestUrl, httpResponse,
                   getsThisRun, gets, presses>>
    /\ UNCHANGED lvars

(***************************************************************************)
(* Specification                                                           *)
(***************************************************************************)
Init ==
    /\ event \in Events
    /\ lpc = "ready"
    /\ response = NoResponse
    /\ lexc = ""
    /\ name = ""
    /\ clicked = FALSE
    /\ cpc = "idle"
    /\ page = BasePage
    /\ requestUrl = ""
    /\ httpResponse = NoHttpResponse
    /\ cexc = ""
    /\ getsThisRun = 0
    /\ gets = 0
    /\ presses = 0

Next ==
    \/ Invoke
    \/ NextRequest
    \/ \E s \in Names : EnterName(s)
    \/ PressSend
    \/ \E r \in HttpResponses : GetReturns(r)
    \/ GetRaises

Spec == Init /\ [][Next]_vars

(***************************************************************************)
(* Properties                                                              *)
(***************************************************************************)
Invoked == lpc # "ready"
HasQsp == "queryStringParameters" \in DOMAIN event
Qsp == event["queryStringParameters"]
QspIsDict == HasQsp /\ Qsp.t = "dict"
HasName == QspIsDict /\ "name" \in DOMAIN Qsp.d
NameValue == Qsp.d["name"]
Shown(kind) == {i \in 1..Len(page) : page[i].kind = kind}
ShownText(kind) == {page[i].text : i \in Shown(kind)}
Greeted == Names \cup {"World", "None"}

\* C1: when queryStringParameters holds name with a non-empty string X, the
\* handler returns statusCode 200 and body "Hello X from AWS Lambda!", X
\* unchanged, whatever other keys the event or the mapping hold.
C1_EchoesName ==
    (Invoked /\ HasName /\ NameValue.t = "str" /\ NameValue.s # "")
        => /\ lpc = "returned"
           /\ response = [statusCode |-> 200,
                          body |-> "Hello " \o NameValue.s \o " from AWS Lambda!"]
           /\ (NameValue.s = "Tobia"
                  => response.body = "Hello Tobia from AWS Lambda!")
           /\ (NameValue.s = "a&b=c"
                  => response.body = "Hello a&b=c from AWS Lambda!")

C1_Witness ==
    /\ lpc = "returned"
    /\ HasName /\ NameValue = PyStr("Tobia")
    /\ "age" \in DOMAIN Qsp.d
    /\ "headers" \in DOMAIN event
    /\ response.body = "Hello Tobia from AWS Lambda!"

\* C2: two-level fallback: an event without queryStringParameters, and an
\* event whose queryStringParameters is a mapping without name, both get
\* statusCode 200 and body "Hello World from AWS Lambda!".
C2_TwoLevelFallback ==
    (Invoked /\ (~HasQsp \/ (QspIsDict /\ ~HasName)))
        => /\ lpc = "returned"
           /\ response = [statusCode |-> 200,
                          body |-> "Hello World from AWS Lambda!"]

C2_Witness ==
    /\ lpc = "returned"
    /\ ~HasQsp
    /\ response.body = "Hello World from AWS Lambda!"

\* C3 (as stated): every invocation, also one whose queryStringParameters is
\* null or not a mapping, completes with a response of statusCode 200.
C3_NeverFails ==
    Invoked => (lpc = "returned" /\ response.statusCode = 200)

\* C4 (as stated): name equal to the empty string gets the response of a
\* missing name, body "Hello World from AWS Lambda!".
C4_EmptyAsMissing ==
    (Invoked /\ HasName /\ NameValue = PyStr(""))
        => /\ lpc = "returned"
           /\ response.body = "Hello World from AWS Lambda!"

\* C4 (amended): the handler tells an empty name from a missing one: name
\* equal to the empty string is embedded as it is, statusCode 200 and body
\* "Hello  from AWS Lambda!", which is not the response of the same event
\* without the name key.
C4_EmptyIsEmbedded ==
    (Invoked /\ HasName /\ NameValue = PyStr(""))
        => /\ lpc = "returned"
           /\ response = [statusCode |-> 200, body |-> "Hello  from AWS Lambda!"]
           /\ LET without == [k \in DOMAIN Qsp.d \ {"name"} |-> Qsp.d[k]]
                  ev == [event EXCEPT !["queryStringParameters"] = EvDict(without)]
              IN  /\ handler(ev).value.body = "Hello World from AWS Lambda!"
                  /\ handler(ev).value # response

C4_Witness ==
    /\ lpc = "returned"
    /\ HasName /\ NameValue = PyStr("")
    /\ response.body = "Hello  from AWS Lambda!"

\* C5: every response the handler returns has exactly the keys statusCode and
\* body, statusCode 200 and a body "Hello <value> from AWS Lambda!".
C5_ResponseShape ==
    lpc = "returned"
        => /\ DOMAIN response = {"statusCode", "body"}
           /\ response.statusCode = 200
           /\ \E v \in Greeted :
                 response.body = "Hello " \o v \o " from AWS Lambda!"

C5_Witness ==
    /\ lpc = "returned"
    /\ QspIsDict /\ ~HasName
    /\ DOMAIN response = {"statusCode", "body"}

\* C6 (as stated): after Send completes, the URL line on the page shows the
\* URL the GET request was issued to.
C6_ShowsRequestUrl ==
    cpc = "done" => ShownText("write") = {"Request sent to: " \o requestUrl}

\* C7: for every input s, Send issues the GET to the base endpoint followed
\* by "/?name=" and the raw s: ?name=Tobia for "Tobia", ?name= for "".
C7_RawUrl ==
    cpc \in {"requesting", "done", "failed"}
        => /\ requestUrl = api_url \o "/?name=" \o name
           /\ (name = "Tobia" => requestUrl =
                 "https://qonm1uqilc.execute-api.eu-west-1.amazonaws.com/?name=Tobia")
           /\ (name = "" => requestUrl =
                 "https://qonm1uqilc.execute-api.eu-west-1.amazonaws.com/?name=")
           /\ (name = "a&b=c" => requestUrl =
                 "https://qonm1uqilc.execute-api.eu-west-1.amazonaws.com/?name=a&b=c")
           /\ (name = "x#y" => requestUrl =
                 "https://qonm1uqilc.execute-api.eu-west-1.amazonaws.com/?name=x#y")

C7_Witness ==
    /\ cpc = "requesting"
    /\ name = "a&b=c"
    /\ requestUrl = "https://qonm1uqilc.execute-api.eu-west-1.amazonaws.com/?name=a&b=c"

\* C8: the confirmation text is a function of the input alone: whatever the
\* server answered, it is "Hello <input> from AWS Lambda!" for a non-empty
\* input and "Hello World from AWS Lambda!" for the empty one.
C8_MessageFromInputOnly ==
    cpc = "done"
        => /\ httpResponse \in HttpResponses
           /\ ShownText("success") =
                 {IF name = "" THEN "Hello World from AWS Lambda!"
                               ELSE "Hello " \o name \o " from AWS Lambda!"}
           /\ (name = "Tobia"
                  => ShownText("success") = {"Hello Tobia from AWS Lambda!"})

C8_Witness ==
    /\ cpc = "done"
    /\ name = ""
    /\ httpResponse = [status_code |-> 200, text |-> "Hello  from AWS Lambda!"]
    /\ ShownText("success") = {"Hello World from AWS Lambda!"}

\* C9: a press of Send causes at most one GET: a failed request is neither
\* caught nor retried, the error leaves the script unhandled.
C9_AtMostOneGet ==
    /\ getsThisRun <= 1
    /\ gets <= presses
    /\ (cpc = "failed"
           => /\ cexc = "ConnectionError"
              /\ getsThisRun = 1
              /\ page = BasePage)

C9_Witness ==
    /\ cpc = "failed"
    /\ cexc = "ConnectionError"
    /\ presses = 2
    /\ gets = 2

\* C10: the URL line and the success message are on the page only when Send
\* was pressed and the GET has returned, and a request is issued only in a
\* run where Send was pressed.
C10_DisplayAfterGet ==
    /\ (Shown("write") # {} \/ Shown("success") # {})
           => (clicked /\ cpc = "done" /\ httpResponse \in HttpResponses)
    /\ cpc \in {"idle", "requesting", "failed"} => page = BasePage
    /\ (getsThisRun > 0 \/ requestUrl # "") => clicked
    /\ cpc = "done"
           => /\ Shown("write") = {Len(BasePage) + 1}
              /\ Shown("success") = {Len(BasePage) + 2}

C10_Witness ==
    /\ cpc = "failed"
    /\ clicked
    /\ getsThisRun = 1
    /\ Shown("write") = {}
    /\ Shown("success") = {}

====
